---- MODULE Spec2Model ----
(***************************************************************************)
(* Model of the switch rebuild workflow (main.ts).                         *)
(*                                                                         *)
(* Text is a sequence of one-character strings, so that trim, split,       *)
(* includes, toLowerCase and padStart are computed as the library computes *)
(* them.  The workflow is one async function: every action below is the    *)
(* code that runs from the completion of one awaited operation up to the   *)
(* next await (or up to the exit of the process).  pc names the operation  *)
(* the run is waiting for.                                                 *)
(***************************************************************************)
EXTENDS Integers, Sequences, FiniteSets, TLC

VARIABLES
    os,             \* Deno.build.os, as getOsInfo classifies it
    pc,             \* the awaited operation, or "exited"
    exitCode,       \* process exit status; -1 while the process runs
    log,            \* every command, prompt, warning and result, in order
    hasChanges,     \* main's local hasChanges
    genQuery,       \* what the generation query returned (and the clock)
    genInfo,        \* GenerationInfo.generation
    commitMessage,  \* main's local commitMessage: <<>> is null, <<m>> is m
    username,       \* the USER environment variable: <<>> is unset or empty
    stream,         \* runCommandWithTimestamps: the child's two channels
    asked           \* confirm on its own: what was read, and what it returned

vars == <<os, pc, exitCode, log, hasChanges, genQuery, genInfo, commitMessage,
          username, stream, asked>>

(***************************************************************************)
(* Bounds of the model.                                                    *)
(***************************************************************************)
MaxLines == 3       \* lines of a generation listing (pure-function harness)

(***************************************************************************)
(* String library functions used by main.ts.                               *)
(***************************************************************************)
\* White space as String.prototype.trim and the regular expression \s see it
\* (restricted to the characters the inputs of the model contain).
IsSpace(c) == c \in {" ", "\t", "\n", "\r"}

RECURSIVE trimStart(_)
trimStart(s) ==
    IF s = <<>> THEN s
    ELSE IF IsSpace(Head(s)) THEN trimStart(Tail(s)) ELSE s

RECURSIVE trimEnd(_)
trimEnd(s) ==
    IF s = <<>> THEN s
    ELSE IF IsSpace(s[Len(s)]) THEN trimEnd(SubSeq(s, 1, Len(s) - 1)) ELSE s

trim(s) == trimEnd(trimStart(s))

\* s.includes(m)
includes(s, m) ==
    \E i \in 1..(Len(s) - Len(m) + 1) : SubSeq(s, i, i + Len(m) - 1) = m

\* s.indexOf(c, i) on 1-based positions: 0 when c does not occur from i on.
RECURSIVE indexOf(_, _, _)
indexOf(s, c, i) ==
    IF i > Len(s) THEN 0
    ELSE IF s[i] = c THEN i ELSE indexOf(s, c, i + 1)

\* Position of the first white space of s from i on, 0 when there is none.
RECURSIVE IndexOfSpace(_, _)
IndexOfSpace(s, i) ==
    IF i > Len(s) THEN 0
    ELSE IF IsSpace(s[i]) THEN i ELSE IndexOfSpace(s, i + 1)

\* s.split(sep) for a one-character separator
RECURSIVE split(_, _)
split(s, sep) ==
    LET i == indexOf(s, sep, 1)
    IN  IF i = 0 THEN <<s>>
        ELSE <<SubSeq(s, 1, i - 1)>> \o split(SubSeq(s, i + 1, Len(s)), sep)

\* s.split(/\s+/)
RECURSIVE splitSpaces(_)
splitSpaces(s) ==
    LET i == IndexOfSpace(s, 1)
    IN  IF i = 0 THEN <<s>>
        ELSE <<SubSeq(s, 1, i - 1)>>
                 \o splitSpaces(trimStart(SubSeq(s, i + 1, Len(s))))

Digits == <<"0", "1", "2", "3", "4", "5", "6", "7", "8", "9">>

\* String(n) for a natural number n
RECURSIVE NumberToString(_)
NumberToString(n) ==
    IF n < 10 THEN <<Digits[n + 1]>>
    ELSE NumberToString(n \div 10) \o <<Digits[(n % 10) + 1]>>

\* s.padStart(n, c)
RECURSIVE padStart(_, _, _)
padStart(s, n, c) == IF Len(s) >= n THEN s ELSE padStart(<<c>> \o s, n, c)

UpperCase == <<"A", "B", "C", "D", "E", "F", "G", "H", "I", "J", "K", "L", "M",
               "N", "O", "P", "Q", "R", "S", "T", "U", "V", "W", "X", "Y", "Z">>
LowerCase == <<"a", "b", "c", "d", "e", "f", "g", "h", "i", "j", "k", "l", "m",
               "n", "o", "p", "q", "r", "s", "t", "u", "v", "w", "x", "y", "z">>

\* s.toLowerCase()
toLowerCase(s) ==
    [i \in 1..Len(s) |->
        IF \E k \in 1..26 : UpperCase[k] = s[i]
        THEN LowerCase[CHOOSE k \in 1..26 : UpperCase[k] = s[i]]
        ELSE s[i]]

(***************************************************************************)
(* Generation detection.                                                   *)
(***************************************************************************)
CurrentMarker == <<"c", "u", "r", "r", "e", "n", "t">>
GenerationPrefix == <<"G", "e", "n", "e", "r", "a", "t", "i", "o", "n", " ">>
SystemUpdatePrefix ==
    <<"S", "y", "s", "t", "e", "m", " ", "u", "p", "d", "a", "t", "e", " ">>

\* now is the local time: getFullYear, getMonth (0-based), getDate, getHours,
\* getMinutes, getSeconds.
getCurrentTimestamp(now) ==
    LET year    == now.year
        month   == padStart(NumberToString(now.month + 1), 2, "0")
        day     == padStart(NumberToString(now.date), 2, "0")
        hours   == padStart(NumberToString(now.hours), 2, "0")
        minutes == padStart(NumberToString(now.minutes), 2, "0")
        seconds == padStart(NumberToString(now.seconds), 2, "0")
    IN  NumberToString(year) \o <<"-">> \o month \o <<"-">> \o day \o <<" ">>
            \o hours \o <<":">> \o minutes \o <<":">> \o seconds

\* The loop over the lines of the listing: the first line that contains the
\* marker decides, whatever its first field is.
RECURSIVE ScanLines(_, _)
ScanLines(lines, now) ==
    IF lines = <<>> THEN SystemUpdatePrefix \o getCurrentTimestamp(now)
    ELSE LET line == Head(lines)
         IN  IF includes(line, CurrentMarker)
             THEN LET fields == splitSpaces(trim(line))
                  IN  IF Len(fields) > 0
                      THEN GenerationPrefix \o fields[1]
                      ELSE ScanLines(Tail(lines), now)
             ELSE ScanLines(Tail(lines), now)

\* q is the outcome of command.output(): thrown (the query could not be
\* run), or an exit code and the captured standard output.
getCurrentGeneration(q) ==
    IF q.thrown THEN SystemUpdatePrefix \o getCurrentTimestamp(q.now)
    ELSE IF q.code # 0 THEN SystemUpdatePrefix \o getCurrentTimestamp(q.now)
    ELSE ScanLines(split(q.stdout, "\n"), q.now)

(***************************************************************************)
(* The outside world: what the environment, the commands and the operator  *)
(* can answer.                                                             *)
(***************************************************************************)
OsTypes == {"darwin", "linux"}

UserEnv == {<<>>, <<"b", "o", "b">>}

\* Deno.stat(nixDir) finds a directory, something that is no directory, or
\* nothing.
StatOutcomes == {"dir", "file", "missing"}

\* Outcome of a command whose output is inherited or streamed: the command
\* could not be run (thrown), or it ran and exited with a code.
InheritResults ==
    {[thrown |-> TRUE, code |-> 0, stdout |-> <<>>],
     [thrown |-> FALSE, code |-> 0, stdout |-> <<>>],
     [thrown |-> FALSE, code |-> 1, stdout |-> <<>>]}

\* Outcome of a command whose standard output is captured.
CaptureResults(outs) ==
    {[thrown |-> TRUE, code |-> 0, stdout |-> <<>>],
     [thrown |-> FALSE, code |-> 1, stdout |-> <<>>]}
        \cup {[thrown |-> FALSE, code |-> 0, stdout |-> o] : o \in outs}

DiffOutputs == {<<>>, <<"\n">>, <<"+", "x", "\n">>}
StatusOutputs == {<<>>, <<" ", "M", " ", "a", ".", "n", "i", "x", "\n">>}
LogOutputs == {<<"a", "b", "c", "1", " ", "m", "s", "g", "\n">>}

\* What Deno.stdin.read returns to confirm: end of input, or the bytes read.
StdinReads ==
    {[eof |-> TRUE, data |-> <<>>],
     [eof |-> FALSE, data |-> <<" ", "Y", "E", "S", " ", "\n">>],
     [eof |-> FALSE, data |-> <<"n", "\n">>],
     [eof |-> FALSE, data |-> <<"\n">>]}

SelectValues == {"default", "custom", "skip"}

CustomMessages ==
    {<<>>, <<" ", " ">>, <<" ", "f", "i", "x", " ", "i", "t", " ">>}

Clocks ==
    {[year |-> 2024, month |-> 0, date |-> 1,
      hours |-> 12, minutes |-> 0, seconds |-> 0],
     [year |-> 2025, month |-> 11, date |-> 31,
      hours |-> 23, minutes |-> 59, seconds |-> 59],
     [year |-> 1999, month |-> 8, date |-> 9,
      hours |-> 9, minutes |-> 5, seconds |-> 7]}

\* Lines a generation listing is made of: an older generation, the current
\* one as the spec's example prints it, the current one as nix-env marks it,
\* and two lines that hold the marker but do not begin with a number.
LineOld ==
    <<" ", " ", "4", "1", " ", " ", " ", "2", "0", "2", "4", "-", "0", "1",
      "-", "0", "1", " ", "1", "1", ":", "0", "0", ":", "0", "0", " ", " ",
      " ">>
LineCurrent ==
    <<"4", "2", " ", " ", " ", "2", "0", "2", "4", "-", "0", "1", "-", "0",
      "1", " ", "1", "2", ":", "0", "0", ":", "0", "0", " ", " ", " ", "c",
      "u", "r", "r", "e", "n", "t">>
LineCurrentParen ==
    <<" ", " ", "7", " ", " ", " ", "2", "0", "2", "4", "-", "0", "1", "-",
      "0", "2", " ", "0", "9", ":", "3", "0", ":", "0", "0", " ", " ", " ",
      "(", "c", "u", "r", "r", "e", "n", "t", ")">>
LineNoNumber == <<"x", " ", "c", "u", "r", "r", "e", "n", "t">>
LineMarkerFirst == <<"(", "c", "u", "r", "r", "e", "n", "t", ")", " ", "9">>

ListingLines ==
    {<<>>, LineOld, LineCurrent, LineCurrentParen, LineNoNumber,
     LineMarkerFirst}

\* The listing as the command prints it: every line ended by a newline.
RECURSIVE JoinLines(_)
JoinLines(ls) ==
    IF ls = <<>> THEN <<>> ELSE Head(ls) \o <<"\n">> \o JoinLines(Tail(ls))

Listings(n) ==
    {JoinLines(ls) : ls \in UNION {[1..k -> ListingLines] : k \in 0..n}}

\* The listings the workflow is run with.
WorkflowListings ==
    {<<>>, JoinLines(<<LineOld, LineCurrentParen>>), JoinLines(<<LineNoNumber>>)}

WorkflowClocks ==
    {[year |-> 2024, month |-> 0, date |-> 1,
      hours |-> 12, minutes |-> 0, seconds |-> 0]}

GenQueriesOver(outs, clocks) ==
    {[thrown |-> r.thrown, code |-> r.code, stdout |-> r.stdout, now |-> t] :
        r \in CaptureResults(outs), t \in clocks}

NoQuery ==
    [thrown |-> FALSE, code |-> 0, stdout |-> <<>>,
     now |-> [year |-> 0, month |-> 0, date |-> 0,
              hours |-> 0, minutes |-> 0, seconds |-> 0]]

\* The harness variables while the workflow runs.
NoStream == [code |-> -1]

NoAnswer == [eof |-> TRUE, data |-> <<>>, answer |-> FALSE]

(***************************************************************************)
(* The command runners, the prompts and the log of what the run did.       *)
(***************************************************************************)
\* runCommand, runCommandCapture and runCommandWithTimestamps throw when the
\* command cannot be run or exits with a code other than 0.
\* (variant: the exit code is not looked at)
runCommandIgnoresExitCode(r) == r.thrown

runCommand(r) == r.thrown \/ r.code # 0

runCommandCapture(r) == r.thrown \/ r.code # 0

\* (variant: the exit status of the streamed command is not looked at)
runCommandWithTimestampsIgnoresStatus(r) == r.thrown

runCommandWithTimestamps(r) == r.thrown \/ r.code # 0

\* (variant: the answer is compared without being trimmed)
confirmWithoutTrim(rd) ==
    IF rd.eof THEN FALSE
    ELSE LET answer == toLowerCase(rd.data)
         IN  answer = <<"y">> \/ answer = <<"y", "e", "s">>

\* (variant: everything but an explicit n is a yes)
confirmUnlessNo(rd) ==
    IF rd.eof THEN TRUE
    ELSE toLowerCase(trim(rd.data)) # <<"n">>

\* confirm: TRUE only for an answer that is y or yes once trimmed and in lower
\* case; end of input is a no.
confirm(rd) ==
    IF rd.eof THEN FALSE
    ELSE LET answer == toLowerCase(trim(rd.data))
         IN  answer = <<"y">> \/ answer = <<"y", "e", "s">>

\* confirmCommit: the message to commit with, <<>> for null.
confirmCommit(message, choice, customMessage) ==
    IF choice = "default" THEN <<message>>
    ELSE IF choice = "custom"
         THEN (IF Len(trim(customMessage)) > 0 THEN <<customMessage>> ELSE <<>>)
         ELSE <<>>

Ev(kind, name) ==
    [kind |-> kind, name |-> name, code |-> 0, val |-> "", out |-> <<>>]

\* A command is started.
Invoke(name) == Ev("invoke", name)

InvokeWith(name, arg) == [Ev("invoke", name) EXCEPT !.out = arg]

\* A command has ended: it could not be run, or it exited with r.code.
ResultEv(name, r) ==
    IF r.thrown THEN Ev("throw", name)
    ELSE [Ev("result", name) EXCEPT !.code = r.code, !.out = r.stdout]

\* A prompt is shown, and answered.
Prompt(name) == Ev("prompt", name)

ReadEv(name, rd) ==
    [Ev("answer", name) EXCEPT !.val = IF rd.eof THEN "eof" ELSE "read",
                               !.out = rd.data]

Warn(name) == Ev("warn", name)

Say(name) == Ev("print", name)

RebuildCommand == IF os = "darwin" THEN "darwin-rebuild" ELSE "nixos-rebuild"

\* Deno.exit(code), or the end of the process after main returned or threw.
Exit(l, code) ==
    /\ log' = l
    /\ pc' = "exited"
    /\ exitCode' = code

\* main waits for the next operation.
Await(l, p) ==
    /\ log' = l
    /\ pc' = p
    /\ exitCode' = exitCode

(***************************************************************************)
(* The workflow.                                                           *)
(***************************************************************************)
Init ==
    /\ os \in OsTypes
    /\ pc = "start"
    /\ exitCode = -1
    /\ log = <<>>
    /\ hasChanges = FALSE
    /\ genQuery = NoQuery
    /\ genInfo = <<>>
    /\ commitMessage = <<>>
    /\ username = <<>>
    /\ stream = NoStream
    /\ asked = NoAnswer

\* main calls getNixDir, which reads USER and asks for the directory.
Start ==
    /\ pc = "start"
    /\ \E user \in UserEnv :
        /\ username' = user
        /\ IF user = <<>>
           THEN Exit(log \o <<Ev("throw", "USER")>>, 1)
           ELSE Await(log \o <<Invoke("stat")>>, "stat")
    /\ UNCHANGED <<stream, asked, os, hasChanges, genQuery, genInfo, commitMessage>>

\* Deno.stat returned; main changes directory and starts the diff.
StatDone ==
    /\ pc = "stat"
    /\ \E st \in StatOutcomes :
        IF st = "missing"
        THEN Exit(log \o <<Ev("throw", "stat")>>, 1)
        ELSE IF st = "file"
        THEN Exit(log \o <<Ev("result", "stat"), Say("using"),
                           Ev("throw", "chdir")>>, 1)
        ELSE Await(log \o <<Ev("result", "stat"), Say("using"),
                            Ev("result", "chdir"), Say("diff_header"),
                            Invoke("diff")>>, "diff")
    /\ UNCHANGED <<stream, asked, os, hasChanges, genQuery, genInfo, commitMessage, username>>

\* (variant: the full status is started without waiting for the short one)
DiffDoneStartsBothStatuses ==
    /\ pc = "diff"
    /\ \E r \in CaptureResults(DiffOutputs) :
        LET failed  == runCommandCapture(r)
            changed == ~failed /\ Len(trim(r.stdout)) > 0
        IN  /\ hasChanges' = changed
            /\ Await(log \o <<ResultEv("diff", r)>>
                         \o (IF failed THEN <<Warn("diff")>>
                             ELSE IF changed THEN <<Say("diff")>> ELSE <<>>)
                         \o <<Say("status_header"), Invoke("status_short"),
                              Invoke("status")>>,
                     "status_short")
    /\ UNCHANGED <<stream, asked, os, genQuery, genInfo, commitMessage,
                   username>>

\* Step 1: the diff returned; main starts the short status.
DiffDone ==
    /\ pc = "diff"
    /\ \E r \in CaptureResults(DiffOutputs) :
        LET failed  == runCommandCapture(r)
            changed == ~failed /\ Len(trim(r.stdout)) > 0
        IN  /\ hasChanges' = changed
            /\ Await(log \o <<ResultEv("diff", r)>>
                         \o (IF failed THEN <<Warn("diff")>>
                             ELSE IF changed THEN <<Say("diff")>> ELSE <<>>)
                         \o <<Say("status_header"), Invoke("status_short")>>,
                     "status_short")
    /\ UNCHANGED <<stream, asked, os, genQuery, genInfo, commitMessage, username>>

\* Step 4 begins: the rebuild command is started.
BeginRebuild(l) ==
    IF username = <<>>
    THEN Exit(l \o <<Say("rebuild_header"), Ev("throw", "USER")>>, 1)
    ELSE Await(l \o <<Say("rebuild_header"), Invoke(RebuildCommand)>>,
               "rebuild")

\* (variant: the staging prompt is shown whether or not a change was seen)
AfterStatusAlwaysAsks(l, changed) ==
    Await(l \o <<Prompt("confirm_stage")>>, "confirm_stage")

\* Step 3 begins: the staging prompt is shown only when a change was seen.
AfterStatus(l, changed) ==
    IF changed
    THEN Await(l \o <<Prompt("confirm_stage")>>, "confirm_stage")
    ELSE BeginRebuild(l)

\* Step 2: the short status returned; main starts the full status, or, when
\* the short status failed, leaves the step with a warning.
StatusShortDone ==
    /\ pc = "status_short"
    /\ \E r \in CaptureResults(StatusOutputs) :
        LET failed  == runCommandCapture(r)
            changed == hasChanges \/ (~failed /\ Len(trim(r.stdout)) > 0)
        IN  /\ hasChanges' = changed
            /\ IF failed
               THEN AfterStatus(log \o <<ResultEv("status_short", r),
                                         Warn("status")>>, changed)
               ELSE Await(log \o <<ResultEv("status_short", r),
                                   Invoke("status")>>, "status")
    /\ UNCHANGED <<stream, asked, os, genQuery, genInfo, commitMessage, username>>

\* Step 2: the full status returned.
StatusDone ==
    /\ pc = "status"
    /\ \E r \in InheritResults :
        AfterStatus(log \o <<ResultEv("status", r)>>
                        \o (IF runCommand(r) THEN <<Warn("status")>> ELSE <<>>),
                    hasChanges)
    /\ UNCHANGED <<stream, asked, os, hasChanges, genQuery, genInfo, commitMessage, username>>

\* (variant: declining the staging prompt ends the run as a failure)
StagePromptDoneDeclineFails ==
    /\ pc = "confirm_stage"
    /\ \E rd \in StdinReads :
        IF ~confirm(rd)
        THEN Exit(log \o <<ReadEv("confirm_stage", rd),
                           Say("staging_cancelled")>>, 1)
        ELSE Await(log \o <<ReadEv("confirm_stage", rd), Invoke("add")>>, "add")
    /\ UNCHANGED <<stream, asked, os, hasChanges, genQuery, genInfo, commitMessage, username>>

\* Step 3: the operator answered the staging prompt.
StagePromptDone ==
    /\ pc = "confirm_stage"
    /\ \E rd \in StdinReads :
        IF ~confirm(rd)
        THEN Exit(log \o <<ReadEv("confirm_stage", rd), Say("staging_cancelled")>>, 0)
        ELSE Await(log \o <<ReadEv("confirm_stage", rd), Invoke("add")>>, "add")
    /\ UNCHANGED <<stream, asked, os, hasChanges, genQuery, genInfo, commitMessage, username>>

\* Step 3: git add returned.
AddDone ==
    /\ pc = "add"
    /\ \E r \in InheritResults :
        IF runCommand(r)
        THEN Exit(log \o <<ResultEv("add", r), Say("failed_to_stage")>>, 1)
        ELSE BeginRebuild(log \o <<ResultEv("add", r), Say("staged")>>)
    /\ UNCHANGED <<stream, asked, os, hasChanges, genQuery, genInfo, commitMessage, username>>

\* Step 4: the rebuild returned; on success the generation query is started.
RebuildDone ==
    /\ pc = "rebuild"
    /\ \E r \in InheritResults :
        IF runCommandWithTimestamps(r)
        THEN Exit(log \o <<ResultEv(RebuildCommand, r), Say("build_failed")>>,
                  1)
        ELSE Await(log \o <<ResultEv(RebuildCommand, r),
                            Invoke("list-generations")>>, "generation")
    /\ UNCHANGED <<stream, asked, os, hasChanges, genQuery, genInfo, commitMessage, username>>

\* Step 5: the generation query returned (getCurrentGeneration); main shows
\* the short status again.
GenerationDone ==
    /\ pc = "generation"
    /\ \E q \in GenQueriesOver(WorkflowListings, WorkflowClocks) :
        /\ genQuery' = q
        /\ genInfo' = getCurrentGeneration(q)
        /\ Await(log \o <<ResultEv("list-generations", q)>>
                     \o (IF q.thrown \/ q.code # 0
                         THEN <<Warn("generation")>> ELSE <<>>)
                     \o <<Say("status_header"), Invoke("restatus")>>,
                 "restatus")
    /\ UNCHANGED <<stream, asked, os, hasChanges, commitMessage, username>>

\* (variant: without a detected change the run ends before the commit menu)
ReStatusDoneEndsWithoutChanges ==
    /\ pc = "restatus"
    /\ \E r \in InheritResults :
        LET l == log \o <<ResultEv("restatus", r)>>
                     \o (IF runCommand(r) THEN <<Warn("status")>> ELSE <<>>)
        IN  IF ~hasChanges
            THEN Exit(l \o <<Say("nothing_to_commit")>>, 0)
            ELSE Await(l \o <<Say("commit_message"), Prompt("select")>>,
                       "select")
    /\ UNCHANGED <<stream, asked, os, hasChanges, genQuery, genInfo,
                   commitMessage, username>>

\* Step 6: the short status returned; the commit menu is shown.
ReStatusDone ==
    /\ pc = "restatus"
    /\ \E r \in InheritResults :
        Await(log \o <<ResultEv("restatus", r)>>
                  \o (IF runCommand(r) THEN <<Warn("status")>> ELSE <<>>)
                  \o <<Say("commit_message"), Prompt("select")>>,
              "select")
    /\ UNCHANGED <<stream, asked, os, hasChanges, genQuery, genInfo, commitMessage, username>>

\* (variant: the commit is started without looking at the message)
DecideCommitUnchecked(l, cm) ==
    /\ commitMessage' = cm
    /\ Await(l \o <<InvokeWith("commit", IF cm = <<>> THEN <<>> ELSE cm[1])>>,
             "commit")

\* confirmCommit returned cm: main skips, or starts the commit (step 7).
DecideCommit(l, cm) ==
    /\ commitMessage' = cm
    /\ IF cm = <<>> \/ cm[1] = <<>>
       THEN Exit(l \o <<Say("skipping_commit")>>, 0)
       ELSE Await(l \o <<InvokeWith("commit", cm[1])>>, "commit")

\* The operator chose in the commit menu.
SelectDone ==
    /\ pc = "select"
    /\ \E choice \in SelectValues :
        LET l == log \o <<[Ev("answer", "select") EXCEPT !.val = choice]>>
        IN  IF choice = "custom"
            THEN /\ Await(l \o <<Prompt("input")>>, "input")
                 /\ UNCHANGED commitMessage
            ELSE DecideCommit(l, confirmCommit(genInfo, choice, <<>>))
    /\ UNCHANGED <<stream, asked, os, hasChanges, genQuery, genInfo, username>>

\* The operator submitted a custom commit message.
InputDone ==
    /\ pc = "input"
    /\ \E text \in CustomMessages :
        DecideCommit(log \o <<[Ev("answer", "input") EXCEPT !.val = "read",
                                                            !.out = text]>>,
                     confirmCommit(genInfo, "custom", text))
    /\ UNCHANGED <<stream, asked, os, hasChanges, genQuery, genInfo, username>>

\* (variant: a commit that fails is followed by the push prompt all the same)
CommitDoneIgnoresFailure ==
    /\ pc = "commit"
    /\ \E r \in InheritResults :
        Await(log \o <<ResultEv("commit", r), Say("ready_to_push"),
                       Invoke("log")>>, "log")
    /\ UNCHANGED <<stream, asked, os, hasChanges, genQuery, genInfo,
                   commitMessage, username>>

\* Step 7: the commit returned; on success the last commit is looked up.
CommitDone ==
    /\ pc = "commit"
    /\ \E r \in InheritResults :
        IF runCommand(r)
        THEN Exit(log \o <<ResultEv("commit", r), Say("failed_to_commit")>>, 1)
        ELSE Await(log \o <<ResultEv("commit", r), Say("ready_to_push"),
                            Invoke("log")>>, "log")
    /\ UNCHANGED <<stream, asked, os, hasChanges, genQuery, genInfo, commitMessage, username>>

\* (variant: git log is given up on when it does not answer)
LogDoneOrTimeout ==
    /\ pc = "log"
    /\ \/ \E r \in CaptureResults(LogOutputs) :
            Await(log \o <<ResultEv("log", r)>>
                      \o (IF runCommandCapture(r)
                          THEN <<Warn("log")>> ELSE <<Say("last_commit")>>)
                      \o <<Prompt("confirm_push")>>,
                  "confirm_push")
       \/ Await(log \o <<Warn("log"), Prompt("confirm_push")>>, "confirm_push")
    /\ UNCHANGED <<stream, asked, os, hasChanges, genQuery, genInfo,
                   commitMessage, username>>

\* (variant: a failing git log ends the run)
LogDoneFatal ==
    /\ pc = "log"
    /\ \E r \in CaptureResults(LogOutputs) :
        IF runCommandCapture(r)
        THEN Exit(log \o <<ResultEv("log", r), Warn("log")>>, 1)
        ELSE Await(log \o <<ResultEv("log", r), Say("last_commit"),
                            Prompt("confirm_push")>>, "confirm_push")
    /\ UNCHANGED <<stream, asked, os, hasChanges, genQuery, genInfo, commitMessage, username>>

\* Step 8: git log returned; the push prompt is shown.
LogDone ==
    /\ pc = "log"
    /\ \E r \in CaptureResults(LogOutputs) :
        Await(log \o <<ResultEv("log", r)>>
                  \o (IF runCommandCapture(r)
                      THEN <<Warn("log")>> ELSE <<Say("last_commit")>>)
                  \o <<Prompt("confirm_push")>>,
              "confirm_push")
    /\ UNCHANGED <<stream, asked, os, hasChanges, genQuery, genInfo, commitMessage, username>>

\* (variant: the push is started whatever the answer)
PushPromptDoneAlwaysPushes ==
    /\ pc = "confirm_push"
    /\ \E rd \in StdinReads :
        Await(log \o <<ReadEv("confirm_push", rd), Invoke("push")>>, "push")
    /\ UNCHANGED <<stream, asked, os, hasChanges, genQuery, genInfo, commitMessage, username>>

\* Step 8: the operator answered the push prompt.
PushPromptDone ==
    /\ pc = "confirm_push"
    /\ \E rd \in StdinReads :
        IF ~confirm(rd)
        THEN Exit(log \o <<ReadEv("confirm_push", rd), Say("skipping_push")>>, 0)
        ELSE Await(log \o <<ReadEv("confirm_push", rd), Invoke("push")>>, "push")
    /\ UNCHANGED <<stream, asked, os, hasChanges, genQuery, genInfo, commitMessage, username>>

\* Step 9: the push returned; main returns and the process ends.
PushDone ==
    /\ pc = "push"
    /\ \E r \in InheritResults :
        IF runCommand(r)
        THEN Exit(log \o <<ResultEv("push", r), Say("failed_to_push")>>, 1)
        ELSE Exit(log \o <<ResultEv("push", r), Say("completed")>>, 0)
    /\ UNCHANGED <<stream, asked, os, hasChanges, genQuery, genInfo, commitMessage, username>>

Next ==
    \/ Start
    \/ StatDone
    \/ DiffDone
    \/ StatusShortDone
    \/ StatusDone
    \/ StagePromptDone
    \/ AddDone
    \/ RebuildDone
    \/ GenerationDone
    \/ ReStatusDone
    \/ SelectDone
    \/ InputDone
    \/ CommitDone
    \/ LogDone
    \/ PushPromptDone
    \/ PushDone

Spec == Init /\ [][Next]_vars

(***************************************************************************)
(* getCurrentGeneration on its own: every listing of up to MaxLines lines, *)
(* every outcome of the query, every clock.                                *)
(***************************************************************************)
InitGeneration ==
    /\ os \in OsTypes
    /\ pc = "call"
    /\ exitCode = -1
    /\ log = <<>>
    /\ hasChanges = FALSE
    /\ genQuery \in GenQueriesOver(Listings(MaxLines), Clocks)
    /\ genInfo = <<>>
    /\ commitMessage = <<>>
    /\ username = <<>>
    /\ stream = NoStream
    /\ asked = NoAnswer

CallGetCurrentGeneration ==
    /\ pc = "call"
    /\ genInfo' = getCurrentGeneration(genQuery)
    /\ pc' = "returned"
    /\ UNCHANGED <<stream, asked, os, exitCode, log, hasChanges, genQuery, commitMessage,
                   username>>

NextGeneration == CallGetCurrentGeneration

SpecGeneration == InitGeneration /\ [][NextGeneration]_vars

\* Every command ends and every prompt is answered: a step that can be taken
\* is taken in the end.
FairSpec == Spec /\ WF_vars(Next)

(***************************************************************************)
(* confirm on its own: every answer of up to MaxAnswer characters, and the *)
(* end of input; checked together with the workflow, which calls it for    *)
(* the staging prompt and for the push prompt.                             *)
(***************************************************************************)
MaxAnswer == 4      \* characters of an answer to a yes/no prompt

AnswerAlphabet == {"y", "Y", "e", "E", "s", "n", " ", "\n"}

ConfirmReads ==
    {[eof |-> TRUE, data |-> <<>>]}
        \cup {[eof |-> FALSE, data |-> t] :
                t \in UNION {[1..k -> AnswerAlphabet] : k \in 0..MaxAnswer}}

InitConfirm ==
    /\ os \in OsTypes
    /\ pc = "call_confirm"
    /\ exitCode = -1
    /\ log = <<>>
    /\ hasChanges = FALSE
    /\ genQuery = NoQuery
    /\ genInfo = <<>>
    /\ commitMessage = <<>>
    /\ username = <<>>
    /\ stream = NoStream
    /\ \E rd \in ConfirmReads :
        asked = [eof |-> rd.eof, data |-> rd.data, answer |-> FALSE]

CallConfirm ==
    /\ pc = "call_confirm"
    /\ asked' = [asked EXCEPT
                    !.answer = confirm([eof |-> asked.eof, data |-> asked.data])]
    /\ pc' = "confirm_returned"
    /\ UNCHANGED <<stream, os, exitCode, log, hasChanges, genQuery, genInfo,
                   commitMessage, username>>

InitPrompts == Init \/ InitConfirm

NextPrompts == Next \/ CallConfirm

SpecPrompts == InitPrompts /\ [][NextPrompts]_vars

(***************************************************************************)
(* runCommandWithTimestamps on its own: the child is spawned, each of its  *)
(* two channels is drained by streamWithTimestamps, and when both have     *)
(* ended the exit status is read.  Between two awaits a task runs alone:   *)
(* an action is the code of one task from one await to the next.           *)
(***************************************************************************)
MaxText == 3        \* characters the child writes to its standard output
MaxTicks == 1       \* milliseconds that pass while the command runs

Channels == {"stdout", "stderr"}

StreamAlphabet == {"a", "\n"}

Texts(n) == UNION {[1..k -> StreamAlphabet] : k \in 0..n}

\* The text t cut into chunks after the positions in cuts.
RECURSIVE ChunksAt(_, _, _)
ChunksAt(t, cuts, from) ==
    IF from > Len(t) THEN <<>>
    ELSE LET ends == {c \in cuts : c >= from} \cup {Len(t)}
             to   == CHOOSE c \in ends : \A d \in ends : c <= d
         IN  <<SubSeq(t, from, to)>> \o ChunksAt(t, cuts, to + 1)

\* Every way the reader can deliver the text t in chunks.
Chunkings(t) == {ChunksAt(t, cuts, 1) : cuts \in SUBSET (1..(Len(t) - 1))}

StdoutChunkings == UNION {Chunkings(t) : t \in Texts(MaxText)}

StderrChunkings == {<<>>, <<<<"e">>, <<"\n">>>>}

RECURSIVE Concat(_)
Concat(chunks) ==
    IF chunks = <<>> THEN <<>> ELSE Head(chunks) \o Concat(Tail(chunks))

\* The clock when the command starts (UTC): year, month (0-based), date,
\* hours, minutes, seconds, milliseconds.
StreamClocks ==
    {[year |-> 1999, month |-> 8, date |-> 9, hours |-> 9, minutes |-> 5,
      seconds |-> 7, ms |-> 999]}

\* One millisecond later.
Later(t) ==
    IF t.ms < 999 THEN [t EXCEPT !.ms = t.ms + 1]
    ELSE [t EXCEPT !.ms = 0, !.seconds = t.seconds + 1]

\* (variant: the local date and time of the commit message, not ISO 8601)
toISOStringAsCommitTimestamp(t) == getCurrentTimestamp(t)

\* new Date().toISOString(): YYYY-MM-DDTHH:mm:ss.sssZ
toISOString(t) ==
    padStart(NumberToString(t.year), 4, "0") \o <<"-">>
        \o padStart(NumberToString(t.month + 1), 2, "0") \o <<"-">>
        \o padStart(NumberToString(t.date), 2, "0") \o <<"T">>
        \o padStart(NumberToString(t.hours), 2, "0") \o <<":">>
        \o padStart(NumberToString(t.minutes), 2, "0") \o <<":">>
        \o padStart(NumberToString(t.seconds), 2, "0") \o <<".">>
        \o padStart(NumberToString(t.ms), 3, "0") \o <<"Z">>

\* `${timestamp} ${line}\n`
Message(t, line) == toISOString(t) \o <<" ">> \o line \o <<"\n">>

\* The task of channel ch received a chunk: the buffer is split at the
\* newlines, its last piece stays in the buffer, and the write of the first
\* complete line is started.
AfterChunk(st, ch) ==
    LET chunk    == Head(st.src[ch])
        pieces   == split(st.buffer[ch] \o chunk, "\n")
        complete == SubSeq(pieces, 1, Len(pieces) - 1)
        rest     == [st EXCEPT !.src[ch] = Tail(st.src[ch]),
                               !.fed[ch] = Append(st.fed[ch], chunk),
                               !.buffer[ch] = pieces[Len(pieces)]]
    IN  IF complete = <<>> THEN rest
        ELSE [rest EXCEPT !.at[ch] = "write",
                          !.writing[ch] = Message(st.now, Head(complete)),
                          !.lines[ch] = Tail(complete)]

\* (variant: what is left in the buffer at the end of the stream is dropped)
AfterEndDropsBuffer(st, ch) == [st EXCEPT !.at[ch] = "done"]

\* The channel ended: what is left in the buffer is written as a last line.
AfterEnd(st, ch) ==
    IF st.buffer[ch] # <<>>
    THEN [st EXCEPT !.at[ch] = "flush",
                    !.writing[ch] = Message(st.now, st.buffer[ch])]
    ELSE [st EXCEPT !.at[ch] = "done"]

\* output.write returned: the next complete line is written, or the next
\* chunk is awaited, or (after the last line) the task ends.
AfterWrite(st, ch) ==
    LET done == [st EXCEPT !.written[ch] = Append(st.written[ch],
                                                  st.writing[ch]),
                           !.writing[ch] = <<>>]
    IN  IF st.at[ch] = "flush" THEN [done EXCEPT !.at[ch] = "done"]
        ELSE IF st.lines[ch] # <<>>
        THEN [done EXCEPT !.writing[ch] = Message(st.now, Head(st.lines[ch])),
                          !.lines[ch] = Tail(st.lines[ch])]
        ELSE [done EXCEPT !.at[ch] = "read"]

StreamFrame ==
    UNCHANGED <<os, exitCode, log, hasChanges, genQuery, genInfo,
                commitMessage, username, asked>>

InitStream ==
    /\ os = "linux"
    /\ pc = "stream_spawn"
    /\ exitCode = -1
    /\ log = <<>>
    /\ hasChanges = FALSE
    /\ genQuery = NoQuery
    /\ genInfo = <<>>
    /\ commitMessage = <<>>
    /\ username = <<>>
    /\ asked = NoAnswer
    /\ \E o \in StdoutChunkings, e \in StderrChunkings, t \in StreamClocks :
        stream = [out     |-> [ch \in Channels |->
                                  IF ch = "stdout" THEN Concat(o) ELSE Concat(e)],
                  src     |-> [ch \in Channels |->
                                  IF ch = "stdout" THEN o ELSE e],
                  fed     |-> [ch \in Channels |-> <<>>],
                  buffer  |-> [ch \in Channels |-> <<>>],
                  lines   |-> [ch \in Channels |-> <<>>],
                  writing |-> [ch \in Channels |-> <<>>],
                  written |-> [ch \in Channels |-> <<>>],
                  at      |-> [ch \in Channels |-> "read"],
                  now     |-> t,
                  ticks   |-> 0,
                  code    |-> -1]

\* command.spawn(): the child runs, or spawn throws.
Spawn ==
    /\ pc = "stream_spawn"
    /\ \E spawned \in BOOLEAN :
        pc' = IF spawned THEN "stream" ELSE "stream_thrown"
    /\ UNCHANGED stream
    /\ StreamFrame

\* (variant: the channels are drained one after the other)
StreamReadInTurn(ch) ==
    /\ pc = "stream"
    /\ stream.at[ch] = "read"
    /\ ch = "stderr" => stream.at["stdout"] = "done"
    /\ stream' = IF stream.src[ch] = <<>> THEN AfterEnd(stream, ch)
                 ELSE AfterChunk(stream, ch)
    /\ UNCHANGED pc
    /\ StreamFrame

\* for await (const chunk of reader): a chunk, or the end of the stream.
StreamRead(ch) ==
    /\ pc = "stream"
    /\ stream.at[ch] = "read"
    /\ stream' = IF stream.src[ch] = <<>> THEN AfterEnd(stream, ch)
                 ELSE AfterChunk(stream, ch)
    /\ UNCHANGED pc
    /\ StreamFrame

\* await output.write(...) returned.
StreamWritten(ch) ==
    /\ pc = "stream"
    /\ stream.at[ch] \in {"write", "flush"}
    /\ stream' = AfterWrite(stream, ch)
    /\ UNCHANGED pc
    /\ StreamFrame

\* Time passes.
Tick ==
    /\ pc = "stream"
    /\ stream.ticks < MaxTicks
    /\ stream' = [stream EXCEPT !.now = Later(stream.now),
                                !.ticks = stream.ticks + 1]
    /\ UNCHANGED pc
    /\ StreamFrame

\* (variant: only the standard output is waited for)
JoinAfterStdout ==
    /\ pc = "stream"
    /\ stream.at["stdout"] = "done"
    /\ pc' = "stream_status"
    /\ UNCHANGED stream
    /\ StreamFrame

\* Promise.all: both tasks have ended; the exit status is awaited.
Join ==
    /\ pc = "stream"
    /\ \A ch \in Channels : stream.at[ch] = "done"
    /\ pc' = "stream_status"
    /\ UNCHANGED stream
    /\ StreamFrame

\* child.status: the exit code decides between return and throw.
StreamStatus ==
    /\ pc = "stream_status"
    /\ \E code \in {0, 1} :
        /\ stream' = [stream EXCEPT !.code = code]
        /\ pc' = IF code # 0 THEN "stream_thrown" ELSE "stream_returned"
    /\ StreamFrame

NextStream ==
    \/ Spawn
    \/ \E ch \in Channels : StreamRead(ch)
    \/ \E ch \in Channels : StreamWritten(ch)
    \/ Tick
    \/ Join
    \/ StreamStatus

SpecStream == InitStream /\ [][NextStream]_vars

(***************************************************************************)
(* Vocabulary of the properties: what the log says happened.               *)
(***************************************************************************)
RebuildCommands == {"darwin-rebuild", "nixos-rebuild"}

\* The event starts a command or shows a prompt.
Begins(e) == e.kind \in {"invoke", "prompt"}

\* The event is the end of an operation.
Ended(e) == e.kind \in {"result", "throw"}

\* The operation could not be run, or exited with a code other than 0.
FailedEv(e) == e.kind = "throw" \/ (e.kind = "result" /\ e.code # 0)

SucceededEv(e) == e.kind = "result" /\ e.code = 0

Invoked(name) == \E i \in DOMAIN log : log[i].kind = "invoke" /\ log[i].name = name

Shown(name) == \E i \in DOMAIN log : log[i].kind = "prompt" /\ log[i].name = name

RebuildInvoked == \E c \in RebuildCommands : Invoked(c)

\* The first command or prompt after position i is one of names.
NextBegun(i, names) ==
    \E j \in (i + 1)..Len(log) :
        /\ Begins(log[j])
        /\ log[j].name \in names
        /\ \A k \in (i + 1)..(j - 1) : ~Begins(log[k])

ExitedWith(code) == pc = "exited" /\ exitCode = code

ExitedNonZero == pc = "exited" /\ exitCode > 0

\* Steps whose failure is fatal, and steps whose failure is advisory.
FatalOperations == {"USER", "stat", "chdir", "add", "commit", "push"}
                       \cup RebuildCommands

AdvisoryOperations ==
    {"diff", "status_short", "status", "list-generations", "restatus", "log"}

FatalFailure(e) == e.name \in FatalOperations /\ FailedEv(e)

AdvisoryFailure(e) == e.name \in AdvisoryOperations /\ FailedEv(e)

\* What the step after an advisory step begins with.
NextStepOf(name) ==
    CASE name = "diff" -> {"status_short"}
      [] name \in {"status_short", "status"} ->
            {"confirm_stage"} \cup RebuildCommands
      [] name = "list-generations" -> {"restatus"}
      [] name = "restatus" -> {"select"}
      [] name = "log" -> {"confirm_push"}

\* An answer to a yes/no prompt that says yes: y or yes in any case, with
\* white space around it.
SameLetter(c, d) ==
    c = d \/ \E k \in 1..26 : {c, d} = {UpperCase[k], LowerCase[k]}

SaysYes(e) ==
    /\ e.val = "read"
    /\ \E w \in {<<"y">>, <<"y", "e", "s">>} :
       \E a \in 1..Len(e.out) :
           /\ a + Len(w) - 1 <= Len(e.out)
           /\ \A k \in 1..Len(e.out) :
                IF k < a \/ k > a + Len(w) - 1
                THEN IsSpace(e.out[k])
                ELSE SameLetter(e.out[k], w[k - a + 1])

Declined(e, name) == e.kind = "answer" /\ e.name = name /\ ~SaysYes(e)

AllSpace(s) == \A k \in DOMAIN s : IsSpace(s[k])

\* The operator left the commit menu without a message.
CommitSkipped(e) ==
    \/ e.kind = "answer" /\ e.name = "select" /\ e.val = "skip"
    \/ e.kind = "answer" /\ e.name = "input" /\ AllSpace(e.out)

(***************************************************************************)
(* C1: the commit command is invoked only after the rebuild command was    *)
(* invoked and exited with status 0 in the same run; when the rebuild      *)
(* exits non-zero or cannot be run, neither commit nor push is ever        *)
(* invoked and the process ends with a non-zero status.                    *)
(***************************************************************************)
CommitOnlyAfterRebuildSucceeded ==
    /\ \A i \in DOMAIN log :
        (log[i].kind = "invoke" /\ log[i].name = "commit") =>
            \E k \in 1..(i - 1) : \E j \in (k + 1)..(i - 1) :
                /\ log[k].kind = "invoke" /\ log[k].name \in RebuildCommands
                /\ log[j].name = log[k].name /\ SucceededEv(log[j])
    /\ \A i \in DOMAIN log :
        (log[i].name \in RebuildCommands /\ FailedEv(log[i])) =>
            /\ ExitedNonZero
            /\ ~Invoked("commit")
            /\ ~Invoked("push")

CommitInvokedAfterRebuild == pc = "commit" /\ Invoked("commit")

(***************************************************************************)
(* C2: when the action of a fatal step fails (context resolution, git add, *)
(* rebuild, commit, push), the process ends with a non-zero status and no  *)
(* command or prompt, a rollback command included, is begun after the      *)
(* failure.                                                                *)
(***************************************************************************)
FatalFailureStopsTheRun ==
    \A i \in DOMAIN log :
        FatalFailure(log[i]) =>
            /\ ExitedNonZero
            /\ \A j \in (i + 1)..Len(log) : ~Begins(log[j])

CommitFailed ==
    \E i \in DOMAIN log : log[i].name = "commit" /\ FailedEv(log[i])

(***************************************************************************)
(* C3: after an advisory failure (diff, either status invocation, the      *)
(* generation query, the short status after the rebuild, the log summary)  *)
(* the run does not end: the next thing it begins is the action of the     *)
(* next step.                                                              *)
(***************************************************************************)
AdvisoryFailureContinues ==
    \A i \in DOMAIN log :
        AdvisoryFailure(log[i]) =>
            /\ NextBegun(i, NextStepOf(log[i].name))
            /\ ~(pc = "exited" /\ \A j \in (i + 1)..Len(log) : ~Begins(log[j]))

LogSummaryFailedAndPushAsked ==
    /\ \E i \in DOMAIN log : log[i].name = "log" /\ FailedEv(log[i])
    /\ \E i \in DOMAIN log : log[i].name = "list-generations" /\ FailedEv(log[i])
    /\ \E i \in DOMAIN log : log[i].name = "diff" /\ FailedEv(log[i])
    /\ pc = "confirm_push"

(***************************************************************************)
(* C4: when neither the diff nor the short status detects a change (each   *)
(* failed, or its output is empty), the staging prompt is not shown, git   *)
(* add is not invoked, and the first thing begun after the status step is  *)
(* the rebuild command.                                                    *)
(***************************************************************************)
\* The operation ended without showing a change.
NothingDetected(e) == FailedEv(e) \/ (e.kind = "result" /\ AllSpace(e.out))

\* Position at which the status step ended, 0 while it has not: the failed
\* short status, or else the end of the full status.
StatusStepEnd ==
    LET ends == {i \in DOMAIN log :
                    \/ log[i].name = "status_short" /\ FailedEv(log[i])
                    \/ log[i].name = "status" /\ Ended(log[i])}
    IN  IF ends = {} THEN 0 ELSE CHOOSE i \in ends : TRUE

NoChangeDetected ==
    /\ \E i \in DOMAIN log :
        log[i].name = "diff" /\ Ended(log[i]) /\ NothingDetected(log[i])
    /\ \E i \in DOMAIN log :
        /\ log[i].name = "status_short"
        /\ Ended(log[i])
        /\ NothingDetected(log[i])

NoChangeSkipsStaging ==
    NoChangeDetected =>
        /\ ~Shown("confirm_stage")
        /\ ~Invoked("add")
        /\ StatusStepEnd # 0 => NextBegun(StatusStepEnd, RebuildCommands)

NoChangeAndRebuildBegun ==
    /\ NoChangeDetected
    /\ pc = "rebuild"
    /\ \E i \in DOMAIN log : log[i].name = "diff" /\ SucceededEv(log[i])
    /\ \E i \in DOMAIN log : log[i].name = "status" /\ Ended(log[i])

(***************************************************************************)
(* C5: when the operator declines the staging prompt, the process ends     *)
(* with status 0 and the staging, rebuild, commit and push commands are    *)
(* never invoked.                                                          *)
(***************************************************************************)
StagingDeclinedEndsTheRun ==
    \A i \in DOMAIN log :
        Declined(log[i], "confirm_stage") =>
            /\ ExitedWith(0)
            /\ ~Invoked("add")
            /\ ~RebuildInvoked
            /\ ~Invoked("commit")
            /\ ~Invoked("push")

StagingDeclined ==
    \E i \in DOMAIN log :
        Declined(log[i], "confirm_stage") /\ log[i].val = "read"

(***************************************************************************)
(* C6: the exit status is 0 exactly on the paths that end with staging     *)
(* declined, the commit skipped, the push declined or the push done, and   *)
(* non-zero exactly on the paths ended by a fatal failure; an advisory     *)
(* failure never makes it non-zero.                                        *)
(***************************************************************************)
GracefulEnd ==
    \/ \E i \in DOMAIN log : Declined(log[i], "confirm_stage")
    \/ \E i \in DOMAIN log : CommitSkipped(log[i])
    \/ \E i \in DOMAIN log : Declined(log[i], "confirm_push")
    \/ \E i \in DOMAIN log : log[i].name = "push" /\ SucceededEv(log[i])

FatalEnd == \E i \in DOMAIN log : FatalFailure(log[i])

ExitStatusTellsTheEnd ==
    pc = "exited" =>
        /\ exitCode >= 0
        /\ exitCode = 0 <=> GracefulEnd
        /\ exitCode # 0 <=> FatalEnd

ExitedZeroDespiteAdvisoryFailures ==
    /\ ExitedWith(0)
    /\ \E i \in DOMAIN log : log[i].name = "push" /\ SucceededEv(log[i])
    /\ \E i \in DOMAIN log : log[i].name = "diff" /\ FailedEv(log[i])
    /\ \E i \in DOMAIN log : log[i].name = "log" /\ FailedEv(log[i])

(***************************************************************************)
(* Vocabulary of the generation properties.                                *)
(***************************************************************************)
IsDigit(c) == \E d \in 1..10 : Digits[d] = c

\* The line holds something other than white space.
HasToken(line) == \E a \in DOMAIN line : ~IsSpace(line[a])

\* The first run of characters of the line that is free of white space.
LeadingToken(line) ==
    LET a == CHOOSE a \in DOMAIN line :
                 ~IsSpace(line[a]) /\ \A k \in 1..(a - 1) : IsSpace(line[k])
        b == CHOOSE b \in a..Len(line) :
                 /\ \A k \in a..b : ~IsSpace(line[k])
                 /\ b = Len(line) \/ IsSpace(line[b + 1])
    IN  SubSeq(line, a, b)

IsNumber(t) == Len(t) > 0 /\ \A k \in DOMAIN t : IsDigit(t[k])

Marked(line) == includes(line, CurrentMarker)

\* The line holds the marker and begins with a number.
MarkedNumbered(line) ==
    Marked(line) /\ HasToken(line) /\ IsNumber(LeadingToken(line))

\* System update YYYY-MM-DD HH:MM:SS
IsTimestampFallback(s) ==
    /\ Len(s) = Len(SystemUpdatePrefix) + 19
    /\ SubSeq(s, 1, Len(SystemUpdatePrefix)) = SystemUpdatePrefix
    /\ LET t == SubSeq(s, Len(SystemUpdatePrefix) + 1, Len(s))
       IN  /\ \A k \in {1, 2, 3, 4, 6, 7, 9, 10, 12, 13, 15, 16, 18, 19} :
                IsDigit(t[k])
           /\ t[5] = "-" /\ t[8] = "-" /\ t[11] = " "
           /\ t[14] = ":" /\ t[17] = ":"

ListingOf(q) == split(q.stdout, "\n")

(***************************************************************************)
(* C7: for a generation query that exited 0: when some line of the listing *)
(* holds the marker "current" and begins with a number N, the descriptor   *)
(* is "Generation N" for the first such line; when no line holds the       *)
(* marker, the descriptor is "System update YYYY-MM-DD HH:MM:SS".          *)
(***************************************************************************)
DescriptorOfFirstNumberedCurrentLine ==
    (pc = "returned" /\ ~genQuery.thrown /\ genQuery.code = 0) =>
        LET lines    == ListingOf(genQuery)
            numbered == {i \in DOMAIN lines : MarkedNumbered(lines[i])}
        IN  /\ numbered # {} =>
                LET first == CHOOSE i \in numbered : \A j \in numbered : i <= j
                IN  genInfo = GenerationPrefix \o LeadingToken(lines[first])
            /\ (\A i \in DOMAIN lines : ~Marked(lines[i])) =>
                IsTimestampFallback(genInfo)

(***************************************************************************)
(* C8: when the generation query exits non-zero or cannot be run, or no    *)
(* line holds the marker, or the marked line does not begin with a number, *)
(* the descriptor is the "System update <timestamp>" fallback and the      *)
(* workflow goes on to the commit decision.                                *)
(***************************************************************************)
GenerationQueryEnded ==
    \E i \in DOMAIN log : log[i].name = "list-generations" /\ Ended(log[i])

\* The query gave no generation number.
NoGenerationNumber(q) ==
    \/ q.thrown
    \/ q.code # 0
    \/ \A i \in DOMAIN ListingOf(q) : ~MarkedNumbered(ListingOf(q)[i])

FailedQueryFallsBackToTimestamp ==
    (GenerationQueryEnded /\ NoGenerationNumber(genQuery)) =>
        /\ IsTimestampFallback(genInfo)
        /\ pc = "restatus" \/ Shown("select")

(***************************************************************************)
(* C9: at the commit decision, the custom option with an empty message     *)
(* ends like the skip option: neither commit nor push is invoked, and the  *)
(* process ends with status 0.                                             *)
(***************************************************************************)
EmptyCustomMessage(e) == e.kind = "answer" /\ e.name = "input" /\ e.out = <<>>

SkipChosen(e) == e.kind = "answer" /\ e.name = "select" /\ e.val = "skip"

EmptyCustomMessageIsSkip ==
    \A i \in DOMAIN log :
        (EmptyCustomMessage(log[i]) \/ SkipChosen(log[i])) =>
            /\ ExitedWith(0)
            /\ commitMessage = <<>>
            /\ ~Invoked("commit")
            /\ ~Invoked("push")
            /\ \A j \in (i + 1)..Len(log) : ~Begins(log[j])

EmptyCustomMessageSubmitted ==
    \E i \in DOMAIN log : EmptyCustomMessage(log[i])

(***************************************************************************)
(* C10: when, after a commit that succeeded, the operator declines the     *)
(* push prompt, the process ends with status 0, the push command is not    *)
(* invoked, and no command at all (so none that undoes the commit) is      *)
(* invoked after the answer.                                               *)
(***************************************************************************)
PushDeclinedKeepsTheCommit ==
    \A i \in DOMAIN log :
        Declined(log[i], "confirm_push") =>
            /\ \E k \in 1..(i - 1) : log[k].name = "commit" /\ SucceededEv(log[k])
            /\ ExitedWith(0)
            /\ ~Invoked("push")
            /\ \A j \in (i + 1)..Len(log) : ~Begins(log[j])

PushDeclined ==
    \E i \in DOMAIN log : Declined(log[i], "confirm_push") /\ log[i].val = "read"

(***************************************************************************)
(* Vocabulary of the streaming properties.                                 *)
(***************************************************************************)
\* YYYY-MM-DDTHH:mm:ss.sssZ
IsIsoTimestamp(s) ==
    /\ Len(s) = 24
    /\ \A k \in {1, 2, 3, 4, 6, 7, 9, 10, 12, 13, 15, 16, 18, 19, 21, 22, 23} :
        IsDigit(s[k])
    /\ s[5] = "-" /\ s[8] = "-" /\ s[11] = "T"
    /\ s[14] = ":" /\ s[17] = ":" /\ s[20] = "." /\ s[24] = "Z"

\* A timestamp, a space, one line, a newline.
IsTimestampedLine(m) ==
    /\ Len(m) >= 26
    /\ IsIsoTimestamp(SubSeq(m, 1, 24))
    /\ m[25] = " "
    /\ m[Len(m)] = "\n"
    /\ \A k \in 26..(Len(m) - 1) : m[k] # "\n"

BodyOf(m) == SubSeq(m, 26, Len(m) - 1)

\* The lines written for channel ch so far, without their timestamps.
Bodies(ch) ==
    [i \in 1..Len(stream.written[ch]) |-> BodyOf(stream.written[ch][i])]

\* The lines of a text: what stands between its newlines, and what follows
\* the last newline when that is not empty.
Newlines(t) == {i \in DOMAIN t : t[i] = "\n"}

NthNewline(t, k) ==
    CHOOSE i \in Newlines(t) : Cardinality({j \in Newlines(t) : j <= i}) = k

LinesOfText(t) ==
    LET n       == Cardinality(Newlines(t))
        last    == IF n = 0 THEN 0 ELSE NthNewline(t, n)
        count   == IF last < Len(t) THEN n + 1 ELSE n
        from(k) == IF k = 1 THEN 1 ELSE NthNewline(t, k - 1) + 1
        to(k)   == IF k <= n THEN NthNewline(t, k) - 1 ELSE Len(t)
    IN  [k \in 1..count |-> SubSeq(t, from(k), to(k))]

IsPrefix(a, b) == Len(a) <= Len(b) /\ a = SubSeq(b, 1, Len(a))

\* What the task of channel ch has received so far.
Received(ch) == Concat(stream.fed[ch])

StatusRead == pc = "stream_status" \/ stream.code # -1

(***************************************************************************)
(* C11: every line a streamed command's output is written as begins with   *)
(* an ISO 8601 timestamp, and on each channel the lines are written in the *)
(* order the command produced them, however the two channels interleave.   *)
(***************************************************************************)
StreamedLinesTimestampedInOrder ==
    \A ch \in Channels :
        /\ \A i \in DOMAIN stream.written[ch] :
            IsTimestampedLine(stream.written[ch][i])
        /\ IsPrefix(Bodies(ch), LinesOfText(stream.out[ch]))

TwoLinesAndOneLineStreamed ==
    /\ pc = "stream_returned"
    /\ Len(stream.written["stdout"]) = 2
    /\ Len(stream.written["stderr"]) = 1
    /\ stream.ticks > 0

(***************************************************************************)
(* C12: the exit status of a streamed command is read only after both      *)
(* channels have been drained to the end of the stream: when it is read,   *)
(* no channel has data that was not delivered.                             *)
(***************************************************************************)
StatusReadAfterBothDrained ==
    StatusRead =>
        \A ch \in Channels :
            /\ stream.src[ch] = <<>>
            /\ stream.at[ch] = "done"
            /\ stream.writing[ch] = <<>>
            /\ Bodies(ch) = LinesOfText(stream.out[ch])

StatusReadWithBothChannelsUsed ==
    /\ pc = "stream_status"
    /\ \A ch \in Channels : stream.written[ch] # <<>>

(***************************************************************************)
(* C13: each channel is drained on its own and lines are flushed as they   *)
(* complete: when a channel goes back to reading, every line whose newline *)
(* it has received is written, before the exit status is read; and a       *)
(* channel that has not ended can always take its next step, whatever the  *)
(* state of the other channel.                                             *)
(***************************************************************************)
LinesFlushedAsTheyComplete ==
    pc = "stream" =>
        \A ch \in Channels :
            /\ stream.at[ch] = "read" =>
                /\ Len(stream.written[ch]) = Cardinality(Newlines(Received(ch)))
                /\ stream.code = -1
            /\ stream.at[ch] # "done" =>
                ENABLED (StreamRead(ch) \/ StreamWritten(ch))

LineWrittenWhileOtherChannelSilent ==
    /\ pc = "stream"
    /\ stream.written["stdout"] # <<>>
    /\ stream.at["stdout"] = "read"
    /\ stream.src["stdout"] # <<>>
    /\ stream.fed["stderr"] = <<>>
    /\ stream.src["stderr"] # <<>>

(***************************************************************************)
(* C20: on each channel the lines written are the whole output split at    *)
(* its newlines, however the output is cut into chunks: a line that spans  *)
(* chunks is written once and whole, no line is lost or written twice,     *)
(* empty lines are written, text after the last newline is written once    *)
(* at the end of the stream, and a final newline adds no empty line.       *)
(***************************************************************************)
LinesAreTheOutputSplitAtNewlines ==
    \A ch \in Channels :
        stream.at[ch] = "done" => Bodies(ch) = LinesOfText(stream.out[ch])

LineAcrossChunksWrittenWhole ==
    /\ stream.at["stdout"] = "done"
    /\ stream.fed["stdout"] = << <<"a">>, <<"\n", "a">> >>
    /\ stream.at["stderr"] = "done"
    /\ stream.fed["stderr"] = << <<"e">>, <<"\n">> >>

(***************************************************************************)
(* Vocabulary of the workflow's order.                                     *)
(***************************************************************************)
\* The operation has come to its end: a command ended, a prompt was answered.
Completes(e) == e.kind \in {"result", "throw", "answer"}

\* Place of a command or prompt in the workflow, and the step it belongs to:
\* resolve, diff, status, stage, rebuild, detect generation, re-status,
\* commit decision and commit, push decision and push.
RankOf(name) ==
    CASE name = "stat" -> 1
      [] name = "diff" -> 2
      [] name = "status_short" -> 3
      [] name = "status" -> 4
      [] name = "confirm_stage" -> 5
      [] name = "add" -> 6
      [] name \in RebuildCommands -> 7
      [] name = "list-generations" -> 8
      [] name = "restatus" -> 9
      [] name = "select" -> 10
      [] name = "input" -> 11
      [] name = "commit" -> 12
      [] name = "log" -> 13
      [] name = "confirm_push" -> 14
      [] name = "push" -> 15

StepOf(name) ==
    CASE name = "stat" -> 1
      [] name = "diff" -> 2
      [] name \in {"status_short", "status"} -> 3
      [] name \in {"confirm_stage", "add"} -> 4
      [] name \in RebuildCommands -> 5
      [] name = "list-generations" -> 6
      [] name = "restatus" -> 7
      [] name \in {"select", "input", "commit"} -> 8
      [] name \in {"log", "confirm_push", "push"} -> 9

(***************************************************************************)
(* C14: the steps run in the order resolve, diff, status, stage, rebuild,  *)
(* detect generation, re-status, commit, push: of two commands or prompts  *)
(* the later begun belongs to the same or a later step and to a later      *)
(* place in it, so none begins twice and none of an earlier step begins    *)
(* again, and the earlier one has completed before the later one begins.   *)
(***************************************************************************)
StepsRunInFixedOrder ==
    \A i, j \in DOMAIN log :
        (i < j /\ Begins(log[i]) /\ Begins(log[j])) =>
            /\ StepOf(log[i].name) <= StepOf(log[j].name)
            /\ RankOf(log[i].name) < RankOf(log[j].name)
            /\ \E k \in (i + 1)..(j - 1) :
                Completes(log[k]) /\ log[k].name = log[i].name

AllNineStepsRun ==
    /\ ExitedWith(0)
    /\ \A n \in 1..9 :
        \E i \in DOMAIN log : Begins(log[i]) /\ StepOf(log[i].name) = n
    /\ \E i \in DOMAIN log : log[i].name = "push" /\ SucceededEv(log[i])

(***************************************************************************)
(* C15: a status step that fails counts as having detected nothing: when   *)
(* the diff detected no change and the short or the full status failed,    *)
(* no change is recorded and the staging prompt is not shown.              *)
(***************************************************************************)
StatusStepFailed ==
    \E i \in DOMAIN log :
        log[i].name \in {"status_short", "status"} /\ FailedEv(log[i])

DiffDetectedNothing ==
    \E i \in DOMAIN log :
        log[i].name = "diff" /\ Ended(log[i]) /\ NothingDetected(log[i])

FailedStatusMeansNoChange ==
    (DiffDetectedNothing /\ StatusStepFailed) =>
        /\ ~hasChanges
        /\ ~Shown("confirm_stage")

(***************************************************************************)
(* C16: when every command ends and every prompt is answered the run ends  *)
(* with an exit status; and the run moves only by the end of the command   *)
(* or prompt it is waiting for, so that while that one has not ended       *)
(* nothing of a later step happens.                                        *)
(***************************************************************************)
\* What main is waiting for at pc.
AwaitedAt(p) ==
    CASE p = "rebuild" -> RebuildCommands
      [] p = "generation" -> {"list-generations"}
      [] OTHER -> {p}

MovesByTheAwaitedEnd ==
    /\ Len(log') > Len(log)
    /\ SubSeq(log', 1, Len(log)) = log
    /\ LET e == log'[Len(log) + 1]
       IN  IF pc = "start"
           THEN e.name \in {"USER", "stat"}
           ELSE Completes(e) /\ e.name \in AwaitedAt(pc)

RunEndsUnlessBlocked ==
    /\ <>(pc = "exited")
    /\ [][MovesByTheAwaitedEnd]_vars

RunEndedAfterPushFailed ==
    /\ ExitedWith(1)
    /\ \E i \in DOMAIN log : log[i].name = "push" /\ FailedEv(log[i])

(***************************************************************************)
(* C17: push is invoked only after, in this order, commit was invoked, it  *)
(* exited 0, and the push prompt was answered yes; never after a skipped   *)
(* or failed commit; and at most once.                                     *)
(***************************************************************************)
PushOnlyAfterCommitAndYes ==
    /\ \A i \in DOMAIN log :
        (log[i].kind = "invoke" /\ log[i].name = "push") =>
            \E a, b, c \in 1..(i - 1) :
                /\ a < b /\ b < c
                /\ log[a].kind = "invoke" /\ log[a].name = "commit"
                /\ log[b].name = "commit" /\ SucceededEv(log[b])
                /\ log[c].kind = "answer" /\ log[c].name = "confirm_push"
                /\ SaysYes(log[c])
    /\ (\E i \in DOMAIN log :
            \/ CommitSkipped(log[i])
            \/ log[i].name = "commit" /\ FailedEv(log[i]))
        => ~Invoked("push") /\ ~Shown("confirm_push")
    /\ Cardinality({i \in DOMAIN log :
                        log[i].kind = "invoke" /\ log[i].name = "push"}) <= 1

PushInvokedAfterYes ==
    /\ pc = "push"
    /\ Invoked("push")
    /\ \E i \in DOMAIN log : log[i].name = "commit" /\ SucceededEv(log[i])

(***************************************************************************)
(* C18: confirm returns true exactly for an answer that is y or yes once   *)
(* trimmed and lower-cased, and false for any other answer, the empty one  *)
(* and the end of input included; add is invoked only after a yes to the   *)
(* staging prompt, push only after a yes to the push prompt.               *)
(***************************************************************************)
\* The answer passed to confirm, as an event of the log.
AskedEv == ReadEv("confirm", [eof |-> asked.eof, data |-> asked.data])

InvokedOnlyAfterYes(command, prompt) ==
    \A i \in DOMAIN log :
        (log[i].kind = "invoke" /\ log[i].name = command) =>
            /\ i > 1
            /\ log[i - 1].kind = "answer"
            /\ log[i - 1].name = prompt
            /\ SaysYes(log[i - 1])

OnlyYesIsAccepted ==
    /\ pc = "confirm_returned" => (asked.answer <=> SaysYes(AskedEv))
    /\ InvokedOnlyAfterYes("add", "confirm_stage")
    /\ InvokedOnlyAfterYes("push", "confirm_push")

PaddedMixedCaseYesAccepted ==
    /\ pc = "confirm_returned"
    /\ asked.data = <<" ", "Y", "e", "\n">> \/ asked.data = <<"Y", "E", "s", "\n">>
    /\ asked.answer

(***************************************************************************)
(* C19: the commit is reached without the staging step: in a run where     *)
(* neither the diff nor the status detected a change the staging prompt    *)
(* and git add are skipped, yet once the rebuild succeeded the commit menu *)
(* is shown, an accepted message is followed by the commit command with    *)
(* that message, and a commit that fails ends the run with a non-zero      *)
(* status.                                                                 *)
(***************************************************************************)
\* The message the operator accepted at position i, <<>> when none.
AcceptedMessage(i) ==
    IF log[i].kind = "answer" /\ log[i].name = "select" /\ log[i].val = "default"
    THEN genInfo
    ELSE IF log[i].kind = "answer" /\ log[i].name = "input"
              /\ ~AllSpace(log[i].out)
         THEN log[i].out
         ELSE <<>>

CommitReachedWithoutStaging ==
    NoChangeDetected =>
        /\ ~Shown("confirm_stage")
        /\ ~Invoked("add")
        /\ \A i \in DOMAIN log :
            /\ (log[i].name \in RebuildCommands /\ SucceededEv(log[i])
                    /\ pc \notin {"generation", "restatus"})
                => Shown("select")
            /\ AcceptedMessage(i) # <<>> =>
                /\ i < Len(log)
                /\ log[i + 1] = InvokeWith("commit", AcceptedMessage(i))
            /\ (log[i].name = "commit" /\ FailedEv(log[i])) =>
                /\ ExitedNonZero
                /\ \A k \in (i + 1)..Len(log) : ~Begins(log[k])

UnstagedCommitFailed ==
    /\ NoChangeDetected
    /\ ExitedNonZero
    /\ \E i \in DOMAIN log : log[i].name = "commit" /\ FailedEv(log[i])

====
